---- MODULE Spec2Model ----
(***************************************************************************)
(* The pointer/keyboard controller of controls.js and the SelectionBox     *)
(* entity of selectionBox.js.                                              *)
(*                                                                         *)
(* Coordinates.  Pointer events carry integer client coordinates           *)
(* (clientX, clientY), y growing downwards.  A region's ll/ur are kept in  *)
(* "corrected" screen coordinates (y = Height - clientY).  Scene           *)
(* coordinates are integers in units of 0.001 scene units, so that the     *)
(* offsets 0.05 and 0.009 of the source and the midpoints ( ... ) / 2 are  *)
(* exact.                                                                  *)
(***************************************************************************)
EXTENDS Integers, Sequences, FiniteSets, TLC

\* ------------------------------------------------------------------ bounds
\* Number of pointer-down events the host delivers in one run.
MaxDowns == 3
\* Number of pointer-down events in one run on the left edge of the canvas.
MaxLeftEdgeDowns == 4

\* ------------------------------------------------- environment of the code
\* renderer.getSize(): the canvas is Width x Height pixels.
Width == 2
Height == 2
\* Half a pixel, in scene units (the camera's scale).
HalfPixel == 100
\* 0.05, the horizontal offset of the inner control points of a curve.
Eps == 50
\* 0.009, the radius of a resize point (THREE.CircleBufferGeometry).
PointRadius == 9
\* boundingSphere.radius of a device marker.
DeviceRadius == 200
\* undefined, for a variable that holds a SelectionBox.
NoBox == 0

\* The client positions pointer events are delivered at: the corners of the
\* canvas and its centre.
Pointer ==
    { [x |-> cx, y |-> cy] : cx \in {0, Width}, cy \in {0, Height} }
        \cup { [x |-> Width \div 2, y |-> Height \div 2] }
Shapes == {"Rectangle", "Ellipse"}
DeviceNames == {"poisson_generator_1", "voltmeter_2"}
nameArray ==
    << "lowerLeft", "lowerMiddle", "lowerRight", "middleRight",
       "upperRight", "upperMiddle", "upperLeft", "middleLeft" >>

\* layer_points, in insertion order: each layer's points by their projected
\* screen position toScreenXY(p) (corrected screen coordinates).  The point
\* at sequence position k has the buffer index 3 * (k - 1).
layer_points ==
    << [name |-> "layerA", points |-> << [x |-> 0, y |-> 0], [x |-> 1, y |-> 1] >>,
        offsetts |-> [x |-> 0, y |-> 0]],
       [name |-> "layerB", points |-> << [x |-> 1, y |-> 1], [x |-> 1, y |-> 2] >>,
        offsetts |-> [x |-> HalfPixel, y |-> 0]] >>

LayerIdx == 1..Len(layer_points)

layerIndex(name) == CHOOSE l \in LayerIdx : layer_points[l].name = name

hasLayer(name) == \E l \in LayerIdx : layer_points[l].name = name

\* ------------------------------------------------------- pure functions
\* toObjectCoordinates, on doubled client coordinates (x2 = 2 * x), so that
\* the half pixels of controls.js:328 stay integers.
toObjectCoordinates2(x2, y2) ==
    [x |-> HalfPixel * (x2 - Width), y |-> HalfPixel * (Height - y2)]

toObjectCoordinates(p) == toObjectCoordinates2(2 * p.x, 2 * p.y)

findBounds(pos1, pos2) ==
    [ll |-> [x |-> IF pos1.x < pos2.x THEN pos1.x ELSE pos2.x,
             y |-> IF pos1.y < pos2.y THEN pos1.y ELSE pos2.y],
     ur |-> [x |-> IF pos1.x < pos2.x THEN pos2.x ELSE pos1.x,
             y |-> IF pos1.y < pos2.y THEN pos2.y ELSE pos1.y]]

\* withinRectangleBounds with the upper bounds exclusive
withinRectangleBoundsOpen(pos, b) ==
    (pos.x >= b.ll.x) /\ (pos.x < b.ur.x) /\ (pos.y >= b.ll.y) /\ (pos.y < b.ur.y)

withinRectangleBounds(pos, b) ==
    (pos.x >= b.ll.x) /\ (pos.x <= b.ur.x) /\ (pos.y >= b.ll.y) /\ (pos.y <= b.ur.y)

\* x_side, y_side and center are halves: with X = 2 (pos.x - center.x),
\* A = 2 x_side, Y and B alike, the test is X^2/A^2 + Y^2/B^2 <= 1.  A zero
\* side makes a term Infinity or NaN, and the comparison false.
withinEllipticalBounds(pos, b) ==
    LET A == b.ur.x - b.ll.x
        B == b.ur.y - b.ll.y
        X == 2 * pos.x - (b.ur.x + b.ll.x)
        Y == 2 * pos.y - (b.ur.y + b.ll.y)
    IN  IF A = 0 \/ B = 0
        THEN FALSE
        ELSE X * X * B * B + Y * Y * A * A <= A * A * B * B

withinBounds(pos, b) ==
    IF b.selectedShape = "Rectangle" THEN withinRectangleBounds(pos, b)
    ELSE IF b.selectedShape = "Ellipse" THEN withinEllipticalBounds(pos, b)
    ELSE FALSE

getSelectionBounds(b) ==
    [ll |-> [x |-> toObjectCoordinates(b.ll).x, y |-> -toObjectCoordinates(b.ll).y],
     ur |-> [x |-> toObjectCoordinates(b.ur).x, y |-> -toObjectCoordinates(b.ur).y]]

\* getSelectionInfo with the shape of the default selection
getSelectionInfoRectangle(b) ==
    LET off == layer_points[layerIndex(b.layerName)].offsetts
        ll  == toObjectCoordinates(b.ll)
        ur  == toObjectCoordinates(b.ur)
    IN  [name |-> b.layerName,
         selection |-> [ll |-> [x |-> ll.x - off.x, y |-> -(ll.y - off.y)],
                        ur |-> [x |-> ur.x - off.x, y |-> -(ur.y - off.y)]],
         maskShape |-> "Rectangle"]

\* The payload of the request to /selector, for a box whose layerName names
\* a layer.  neuronType and synModel are the values of two drop-downs of the
\* page, which no handler of the controller reads or writes.
getSelectionInfo(b) ==
    LET off == layer_points[layerIndex(b.layerName)].offsetts
        ll  == toObjectCoordinates(b.ll)
        ur  == toObjectCoordinates(b.ur)
    IN  [name |-> b.layerName,
         selection |-> [ll |-> [x |-> ll.x - off.x, y |-> -(ll.y - off.y)],
                        ur |-> [x |-> ur.x - off.x, y |-> -(ur.y - off.y)]],
         maskShape |-> b.selectedShape]

\* The 8 resize points of makeSelectionPoints, in the order of nameArray.
posArray(b) ==
    LET sb == getSelectionBounds(b)
    IN  << [x |-> sb.ll.x, y |-> sb.ll.y],
           [x |-> (sb.ll.x + sb.ur.x) \div 2, y |-> sb.ll.y],
           [x |-> sb.ur.x, y |-> sb.ll.y],
           [x |-> sb.ur.x, y |-> (sb.ll.y + sb.ur.y) \div 2],
           [x |-> sb.ur.x, y |-> sb.ur.y],
           [x |-> (sb.ll.x + sb.ur.x) \div 2, y |-> sb.ur.y],
           [x |-> sb.ll.x, y |-> sb.ur.y],
           [x |-> sb.ll.x, y |-> (sb.ll.y + sb.ur.y) \div 2] >>

makeSelectionPoints(b) ==
    [b EXCEPT !.resizePoints =
        b.resizePoints \o [i \in 1..8 |-> [name |-> nameArray[i], position |-> posArray(b)[i]]]]

removePoints(b) == [b EXCEPT !.resizePoints = << >>]

\* makeLine: four control points on the middle of the right edge, no target.
makeLine(b) ==
    LET sb == getSelectionBounds(b)
        p  == [x |-> sb.ur.x, y |-> (sb.ll.y + sb.ur.y) \div 2]
    IN  [b EXCEPT !.curves = b.curves \o << [target |-> "", points |-> << p, p, p, p >>] >>]

setLineTarget(b, device) ==
    [b EXCEPT !.curves[Len(b.curves)].target = device]

updateLineStart(b, newPos) ==
    [b EXCEPT !.curves =
        [i \in 1..Len(b.curves) |->
            [b.curves[i] EXCEPT
                !.points[1] = [x |-> newPos.x, y |-> newPos.y],
                !.points[2] = [x |-> newPos.x + Eps, y |-> newPos.y]]]]

\* updateLineEnd without the offset of the third control point
updateLineEndStraight(b, newPos, target) ==
    [b EXCEPT !.curves =
        [i \in 1..Len(b.curves) |->
            IF b.curves[i].target = target
            THEN [b.curves[i] EXCEPT
                    !.points[2].x = b.curves[i].points[1].x + Eps,
                    !.points[3] = [x |-> newPos.x, y |-> newPos.y],
                    !.points[4] = [x |-> newPos.x, y |-> newPos.y]]
            ELSE b.curves[i]]]

updateLineEnd(b, newPos, target) ==
    [b EXCEPT !.curves =
        [i \in 1..Len(b.curves) |->
            IF b.curves[i].target = target
            THEN [b.curves[i] EXCEPT
                    !.points[2].x = b.curves[i].points[1].x + Eps,
                    !.points[3] = [x |-> newPos.x - Eps, y |-> newPos.y],
                    !.points[4] = [x |-> newPos.x, y |-> newPos.y]]
            ELSE b.curves[i]]]

removeLine(b) ==
    [b EXCEPT !.curves = IF b.curves = << >> THEN << >> ELSE SubSeq(b.curves, 1, Len(b.curves) - 1)]

\* removeLines(), called without a target: every curve goes.
removeLines(b) == [b EXCEPT !.curves = << >>]

\* ------------------------------------------------------ point membership
\* The sequence positions of the points of layer l that are within the bounds
\* of b, in buffer order.
pointsWithin(l, b) ==
    LET pts == layer_points[l].points
    IN  SelectSeq([k \in 1..Len(pts) |-> k], LAMBDA k : withinBounds(pts[k], b))

bufferIndices(ks) == [j \in 1..Len(ks) |-> 3 * (ks[j] - 1)]

RECURSIVE selectedInLayers(_, _)
\* The indices selectPoints pushes while it walks the layers l..last.
selectedInLayers(l, b) ==
    IF l > Len(layer_points) THEN << >>
    ELSE bufferIndices(pointsWithin(l, b)) \o selectedInLayers(l + 1, b)

firstLayerHit(b) ==
    IF \E l \in LayerIdx : pointsWithin(l, b) # << >>
    THEN layer_points[CHOOSE l \in LayerIdx :
                        /\ pointsWithin(l, b) # << >>
                        /\ \A m \in 1..(l - 1) : pointsWithin(m, b) = << >>].name
    ELSE ""

highlight(cols, l, b) ==
    [k \in 1..Len(cols) |-> IF withinBounds(layer_points[l].points[k], b) THEN "selected" ELSE cols[k]]

\* Writes of the base colour at the buffer indices ids of one colour buffer;
\* a write past the end of the typed array is dropped.
restore(cols, ids) ==
    [k \in 1..Len(cols) |->
        IF \E j \in 1..Len(ids) : ids[j] = 3 * (k - 1) THEN "base" ELSE cols[k]]

\* selectPoints, run by the constructor: the state it leaves, as
\* [box, colors, nSelected].
selectPoints(b, cols, n) ==
    [box |-> [b EXCEPT !.selectedPointIDs = b.selectedPointIDs \o selectedInLayers(1, b),
                       !.layerName = IF b.layerName = "" THEN firstLayerHit(b) ELSE b.layerName],
     colors |-> [l \in LayerIdx |-> highlight(cols[l], l, b)],
     nSelected |-> n + Len(selectedInLayers(1, b))]

\* new SelectionBox( ll, ur, shape )
SelectionBox(ll, ur, shape, cols, n) ==
    selectPoints([layerName |-> "", ll |-> ll, ur |-> ur, selectedShape |-> shape,
                  box |-> "undefined", resizePoints |-> << >>, curves |-> << >>,
                  selectedPointIDs |-> << >>], cols, n)

\* updateColors without the count taken off for the old points
updateColorsKeepCount(b, cols, n) ==
    LET l     == layerIndex(b.layerName)
        newKs == pointsWithin(l, b)
    IN  [box |-> [b EXCEPT !.selectedPointIDs = bufferIndices(newKs)],
         colors |-> [cols EXCEPT ![l] = highlight(restore(cols[l], b.selectedPointIDs), l, b)],
         nSelected |-> n + Len(newKs)]

\* updateColors, for a box whose layerName names a layer.
updateColors(b, cols, n) ==
    LET l     == layerIndex(b.layerName)
        newKs == pointsWithin(l, b)
    IN  [box |-> [b EXCEPT !.selectedPointIDs = bufferIndices(newKs)],
         colors |-> [cols EXCEPT ![l] = highlight(restore(cols[l], b.selectedPointIDs), l, b)],
         nSelected |-> n - Len(b.selectedPointIDs) + Len(newKs)]

\* removeBox without the count taken off
removeBoxKeepCount(b, cols, n) ==
    LET l == layerIndex(b.layerName)
    IN  [box |-> b,
         colors |-> [cols EXCEPT ![l] = restore(cols[l], b.selectedPointIDs)],
         nSelected |-> n]

\* removeBox, for a box whose layerName names a layer.
removeBox(b, cols, n) ==
    LET l == layerIndex(b.layerName)
    IN  [box |-> b,
         colors |-> [cols EXCEPT ![l] = restore(cols[l], b.selectedPointIDs)],
         nSelected |-> n - Len(b.selectedPointIDs)]

makeBox(b) == [b EXCEPT !.box = "mesh"]

\* ------------------------------------------------------------ hit testing
\* The ray through the pointer meets the scene plane at
\* toObjectCoordinates(client); it intersects a disc or sphere whose centre
\* is within its radius of that point.
rayHits(client, centre, radius) ==
    LET p == toObjectCoordinates(client)
    IN  (p.x - centre.x) * (p.x - centre.x) + (p.y - centre.y) * (p.y - centre.y)
            <= radius * radius

\* the resize points of b, intersected or not
pointIntersectsAll(client, b) ==
    { b.resizePoints[i].name : i \in 1..Len(b.resizePoints) }

\* The names of the resize points of b the ray intersects.
pointIntersects(client, b) ==
    { b.resizePoints[i].name : i \in { j \in 1..Len(b.resizePoints) :
            rayHits(client, b.resizePoints[j].position, PointRadius) } }

\* The devices of drag_objects the ray intersects.
intersects(client, devs) ==
    { d \in DeviceNames : rayHits(client, devs[d], DeviceRadius) }

\* ------------------------------------------------------------------ state
VARIABLES
    mouseDown, shiftDown, make_selection_box, make_connection,
    object_selected,      \* a device name, or "none"
    selectionBoxArray,    \* sequence of box ids
    boxInFocus,           \* a box id, or NoBox
    resizeSideInFocus,    \* a name of nameArray, or "undefined"
    mouseDownCoords, mRelPos, layerSelected,
    deviceBoxMap,         \* device name -> sequence of box ids
    nSelected,
    colors,               \* layer -> colour of each point
    heap,                 \* box id -> the SelectionBox object, once constructed
    nBoxes,               \* SelectionBox objects constructed so far
    drag_objects,         \* device name -> position of the marker
    requests,             \* the payloads POSTed to /selector, in order
    \* history, not read by any handler
    nDowns,               \* pointer-down events delivered
    gesture,              \* the Connecting gesture under way, with the state before its pointer-down
    committed             \* the box the last pointer-up ended Resizing on, with its bounds before it

vars ==
    << mouseDown, shiftDown, make_selection_box, make_connection, object_selected,
       selectionBoxArray, boxInFocus, resizeSideInFocus, mouseDownCoords, mRelPos,
       layerSelected, deviceBoxMap, nSelected, colors, heap, nBoxes, drag_objects,
       requests, nDowns, gesture, committed >>

NoGesture == [box |-> NoBox, curves |-> << >>, map |-> [d \in DeviceNames |-> << >>]]

NoCommit == [box |-> NoBox, ll |-> [x |-> 0, y |-> 0], ur |-> [x |-> 0, y |-> 0]]

Init ==
    /\ mouseDown = FALSE
    /\ shiftDown = FALSE
    /\ make_selection_box = FALSE
    /\ make_connection = FALSE
    /\ object_selected = "none"
    /\ selectionBoxArray = << >>
    /\ boxInFocus = NoBox
    /\ resizeSideInFocus = "undefined"
    /\ mouseDownCoords = [x |-> 0, y |-> 0]
    /\ mRelPos = [x |-> 0, y |-> 0]
    /\ layerSelected = ""
    /\ deviceBoxMap = [d \in DeviceNames |-> << >>]
    /\ nSelected = 0
    /\ colors = [l \in LayerIdx |-> [k \in 1..Len(layer_points[l].points) |-> "base"]]
    /\ heap = << >>
    /\ nBoxes = 0
    /\ drag_objects = [d \in DeviceNames |->
                        IF d = "voltmeter_2"
                        THEN toObjectCoordinates([x |-> Width, y |-> 0])
                        ELSE toObjectCoordinates([x |-> Width, y |-> Height])]
    /\ requests = << >>
    /\ nDowns = 0
    /\ gesture = NoGesture
    /\ committed = NoCommit

\* --------------------------------------------------------------- handlers
DeleteKey == 46

Range(seq) == { seq[i] : i \in 1..Len(seq) }

\* array.splice(array.indexOf(x), 1), when x is in the array
spliceFirst(seq, x) ==
    IF x \in Range(seq)
    THEN LET i == CHOOSE j \in 1..Len(seq) : seq[j] = x /\ \A k \in 1..(j - 1) : seq[k] # x
         IN  SubSeq(seq, 1, i - 1) \o SubSeq(seq, i + 1, Len(seq))
    ELSE seq

\* boxInFocus.curveObject: no statement of SelectionBox or of the controller
\* assigns this property (the class keeps currentCurveObject and curves).
curveObject(b) == "undefined"

\* the scan of the boxes taken from the end of the array
lastBoxWithin(pos, arr, h) ==
    IF \E i \in 1..Len(arr) : withinBounds(pos, h[arr[i]])
    THEN CHOOSE i \in 1..Len(arr) :
            /\ withinBounds(pos, h[arr[i]])
            /\ \A j \in (i + 1)..Len(arr) : ~withinBounds(pos, h[arr[j]])
    ELSE 0

\* The index of the first box of selectionBoxArray whose bounds hold pos, or 0.
firstBoxWithin(pos, arr, h) ==
    IF \E i \in 1..Len(arr) : withinBounds(pos, h[arr[i]])
    THEN CHOOSE i \in 1..Len(arr) :
            /\ withinBounds(pos, h[arr[i]])
            /\ \A j \in 1..(i - 1) : ~withinBounds(pos, h[arr[j]])
    ELSE 0

resetButtons ==
    /\ mouseDown' = FALSE
    /\ shiftDown' = FALSE
    /\ make_selection_box' = FALSE
    /\ make_connection' = FALSE
    /\ mouseDownCoords' = [x |-> 0, y |-> 0]
    /\ mRelPos' = [x |-> 0, y |-> 0]
    /\ layerSelected' = ""

\* The handler ends without reaching resetButtons (a return, or a TypeError).
keepButtons ==
    UNCHANGED << mouseDown, shiftDown, make_selection_box, make_connection,
                 mouseDownCoords, mRelPos, layerSelected >>

onMouseDown(cx, cy, shiftKey) ==
    LET client == [x |-> cx, y |-> cy]
        names  == IF boxInFocus # NoBox THEN pointIntersects(client, heap[boxInFocus]) ELSE {}
        \* the heap once a focused box whose points were missed has lost them
        heap1  == IF boxInFocus # NoBox
                  THEN [heap EXCEPT ![boxInFocus] = removePoints(heap[boxInFocus])]
                  ELSE heap
        mouseDownCorrected == [x |-> cx, y |-> Height - cy]
        i      == firstBoxWithin(mouseDownCorrected, selectionBoxArray, heap1)
    IN  /\ nDowns' = nDowns + 1
        /\ committed' = NoCommit
        /\ mouseDown' = TRUE
        /\ mouseDownCoords' = client
        /\ UNCHANGED << mRelPos, layerSelected, selectionBoxArray, deviceBoxMap, nSelected,
                        colors, nBoxes, drag_objects, requests >>
        /\ IF names # {}
           THEN \* a resize point of the focused box is hit
                /\ \E name \in names :
                      /\ resizeSideInFocus' = name
                /\ gesture' = NoGesture
                /\ UNCHANGED << shiftDown, make_selection_box, make_connection,
                                object_selected, boxInFocus, heap >>
           ELSE IF shiftKey
           THEN /\ shiftDown' = TRUE
                /\ IF intersects(client, drag_objects) # {}
                   THEN \E d \in intersects(client, drag_objects) : object_selected' = d
                   ELSE UNCHANGED object_selected
                /\ boxInFocus' = NoBox
                /\ heap' = heap1
                /\ gesture' = NoGesture
                /\ UNCHANGED << make_selection_box, make_connection, resizeSideInFocus >>
           ELSE IF i # 0
           THEN LET id == selectionBoxArray[i]
                IN  /\ boxInFocus' = id
                    /\ IF curveObject(heap1[id]) = "undefined"
                       THEN /\ make_connection' = TRUE
                            /\ heap' = [heap1 EXCEPT ![id] = makeSelectionPoints(makeLine(heap1[id]))]
                            /\ gesture' = [box |-> id, curves |-> heap1[id].curves,
                                           map |-> deviceBoxMap]
                       ELSE /\ UNCHANGED make_connection
                            /\ heap' = [heap1 EXCEPT ![id] = makeSelectionPoints(heap1[id])]
                            /\ gesture' = NoGesture
                    /\ UNCHANGED << shiftDown, make_selection_box, object_selected,
                                    resizeSideInFocus >>
           ELSE /\ make_selection_box' = TRUE
                /\ boxInFocus' = NoBox
                /\ heap' = heap1
                /\ gesture' = NoGesture
                /\ UNCHANGED << shiftDown, make_connection, object_selected, resizeSideInFocus >>

\* the switch with an edge-midpoint handle writing both coordinates of its
\* side's first corner
resizedAsCorner(b, side, cx, cy) ==
    LET y == Height - cy
    IN  CASE side \in {"lowerLeft", "lowerMiddle"}  -> [b EXCEPT !.ll.x = cx, !.ll.y = y]
          [] side \in {"lowerRight", "middleRight"} -> [b EXCEPT !.ur.x = cx, !.ll.y = y]
          [] side \in {"upperRight", "upperMiddle"} -> [b EXCEPT !.ur.x = cx, !.ur.y = y]
          [] side \in {"upperLeft", "middleLeft"}   -> [b EXCEPT !.ll.x = cx, !.ur.y = y]
          [] OTHER                                   -> b

\* The bounds of b after a pointer-move at (cx, cy) with the resize point
\* `side` in focus.
resized(b, side, cx, cy) ==
    LET y == Height - cy
    IN  CASE side = "lowerLeft"   -> [b EXCEPT !.ll.x = cx, !.ll.y = y]
          [] side = "lowerMiddle" -> [b EXCEPT !.ll.y = y]
          [] side = "lowerRight"  -> [b EXCEPT !.ur.x = cx, !.ll.y = y]
          [] side = "middleRight" -> [b EXCEPT !.ur.x = cx]
          [] side = "upperRight"  -> [b EXCEPT !.ur.x = cx, !.ur.y = y]
          [] side = "upperMiddle" -> [b EXCEPT !.ur.y = y]
          [] side = "upperLeft"   -> [b EXCEPT !.ll.x = cx, !.ur.y = y]
          [] side = "middleLeft"  -> [b EXCEPT !.ll.x = cx]
          [] OTHER                -> b

\* intersectPlane: whether the ray of the last ray cast meets the drag plane
\* is the camera's affair; both outcomes are taken.
onMouseMove(cx, cy, intersectPlane) ==
    LET client == [x |-> cx, y |-> cy]
        relScreenPos == toObjectCoordinates(client)
    IN  /\ UNCHANGED << mouseDown, shiftDown, make_selection_box, make_connection,
                        object_selected, selectionBoxArray, boxInFocus, resizeSideInFocus,
                        mouseDownCoords, layerSelected, deviceBoxMap, nSelected, colors,
                        nBoxes, requests, nDowns, gesture, committed >>
        /\ IF make_selection_box
           THEN /\ mRelPos' = [x |-> cx - mouseDownCoords.x, y |-> cy - mouseDownCoords.y]
                /\ UNCHANGED << heap, drag_objects >>
           ELSE IF resizeSideInFocus # "undefined"
           THEN /\ IF boxInFocus = NoBox
                   THEN /\ UNCHANGED heap
                   ELSE \* updateBox throws for a box that has no mesh, after
                        \* the coordinates are written
                        /\ heap' = [heap EXCEPT ![boxInFocus] =
                                      resized(heap[boxInFocus], resizeSideInFocus, cx, cy)]
                /\ UNCHANGED << mRelPos, drag_objects >>
           ELSE IF make_connection
           THEN /\ IF boxInFocus = NoBox
                   THEN /\ UNCHANGED heap
                   ELSE /\ heap' = [heap EXCEPT ![boxInFocus] =
                                      updateLineEnd(heap[boxInFocus], relScreenPos, "")]
                /\ UNCHANGED << mRelPos, drag_objects >>
           ELSE IF shiftDown /\ object_selected # "none" /\ intersectPlane
           THEN LET deviceName == object_selected
                    end == [x |-> relScreenPos.x - DeviceRadius, y |-> relScreenPos.y]
                IN  /\ drag_objects' = [drag_objects EXCEPT ![deviceName] = relScreenPos]
                    /\ heap' = [id \in DOMAIN heap |->
                                  IF id \in Range(deviceBoxMap[deviceName])
                                  THEN updateLineEnd(heap[id], end, deviceName)
                                  ELSE heap[id]]
                    /\ UNCHANGED mRelPos
           ELSE UNCHANGED << mRelPos, heap, drag_objects >>

\* The box of the resize branch of onMouseUp once ll/ur are exchanged where
\* the drag flipped them.
\* the exchange on the x axis alone
exchangedX(b) ==
    IF b.ll.x > b.ur.x THEN [b EXCEPT !.ll.x = b.ur.x, !.ur.x = b.ll.x] ELSE b

exchanged(b) ==
    LET bx == IF b.ll.x > b.ur.x THEN [b EXCEPT !.ll.x = b.ur.x, !.ur.x = b.ll.x] ELSE b
    IN  IF bx.ll.y > bx.ur.y THEN [bx EXCEPT !.ll.y = bx.ur.y, !.ur.y = bx.ll.y] ELSE bx

onMouseUp(cx, cy, selectedShape) ==
    LET client == [x |-> cx, y |-> cy]
    IN  /\ gesture' = NoGesture
        /\ committed' = IF ~make_selection_box /\ resizeSideInFocus # "undefined" /\ boxInFocus # NoBox
                         THEN [box |-> boxInFocus, ll |-> heap[boxInFocus].ll,
                               ur |-> heap[boxInFocus].ur]
                         ELSE NoCommit
        /\ UNCHANGED << nDowns >>
        /\ IF make_selection_box
           THEN LET mouseDownCorrected == [x |-> mouseDownCoords.x, y |-> Height - mouseDownCoords.y]
                    mouseUpCoords == [x |-> mRelPos.x + mouseDownCorrected.x,
                                      y |-> -mRelPos.y + mouseDownCorrected.y]
                    bounds == findBounds(mouseUpCoords, mouseDownCorrected)
                    made   == SelectionBox(bounds.ll, bounds.ur, selectedShape, colors, nSelected)
                    id     == nBoxes + 1
                IN  /\ nBoxes' = id
                    /\ boxInFocus' = id
                    /\ selectionBoxArray' = Append(selectionBoxArray, id)
                    /\ colors' = made.colors
                    /\ nSelected' = made.nSelected
                    /\ IF made.box.layerName = ""
                       THEN /\ heap' = Append(heap, made.box)
                            /\ UNCHANGED requests
                       ELSE /\ heap' = Append(heap, makeSelectionPoints(makeBox(made.box)))
                            /\ requests' = Append(requests, getSelectionInfo(made.box))
                    /\ resetButtons
                    /\ UNCHANGED << object_selected, resizeSideInFocus, deviceBoxMap, drag_objects >>
           ELSE IF resizeSideInFocus # "undefined"
           THEN /\ resizeSideInFocus' = "undefined"
                /\ UNCHANGED << object_selected, selectionBoxArray, boxInFocus, deviceBoxMap,
                                nBoxes, drag_objects, requests >>
                /\ IF boxInFocus = NoBox
                   THEN \* TypeError on boxInFocus.ll
                        /\ keepButtons
                        /\ UNCHANGED << heap, colors, nSelected >>
                   ELSE LET b1 == makeSelectionPoints(removePoints(exchanged(heap[boxInFocus])))
                        IN  IF ~hasLayer(b1.layerName)
                            THEN \* TypeError in updateColors on layer_points[""]
                                 /\ heap' = [heap EXCEPT ![boxInFocus] = b1]
                                 /\ keepButtons
                                 /\ UNCHANGED << colors, nSelected >>
                            ELSE LET upd == updateColors(b1, colors, nSelected)
                                     start == toObjectCoordinates2(
                                                 2 * upd.box.ur.x,
                                                 2 * Height - (upd.box.ll.y + upd.box.ur.y))
                                 IN  /\ heap' = [heap EXCEPT ![boxInFocus] =
                                                    updateLineStart(upd.box, start)]
                                     /\ colors' = upd.colors
                                     /\ nSelected' = upd.nSelected
                                     /\ resetButtons
           ELSE IF make_connection
           THEN /\ UNCHANGED << object_selected, selectionBoxArray, boxInFocus, resizeSideInFocus,
                                nSelected, colors, nBoxes, drag_objects, requests >>
                /\ IF intersects(client, drag_objects) # {}
                   THEN \E intersect_target \in intersects(client, drag_objects) :
                          IF boxInFocus = NoBox \/ heap[boxInFocus].curves = << >>
                          THEN \* TypeError in or on setLineTarget
                               /\ keepButtons
                               /\ UNCHANGED << heap, deviceBoxMap >>
                          ELSE LET pos == drag_objects[intersect_target]
                                   end == [x |-> pos.x - DeviceRadius, y |-> pos.y]
                               IN  /\ heap' = [heap EXCEPT ![boxInFocus] =
                                                  updateLineEnd(
                                                      setLineTarget(heap[boxInFocus], intersect_target),
                                                      end, intersect_target)]
                                   /\ deviceBoxMap' = [deviceBoxMap EXCEPT ![intersect_target] =
                                                          Append(@, boxInFocus)]
                                   /\ resetButtons
                   ELSE IF boxInFocus = NoBox
                        THEN \* TypeError on boxInFocus.removeLine
                             /\ keepButtons
                             /\ UNCHANGED << heap, deviceBoxMap >>
                        ELSE /\ heap' = [heap EXCEPT ![boxInFocus] = removeLine(heap[boxInFocus])]
                             /\ resetButtons
                             /\ UNCHANGED deviceBoxMap
           ELSE IF shiftDown
           THEN /\ object_selected' = "none"
                /\ resetButtons
                /\ UNCHANGED << selectionBoxArray, boxInFocus, resizeSideInFocus, deviceBoxMap,
                                nSelected, colors, heap, nBoxes, drag_objects, requests >>
           ELSE /\ resetButtons
                /\ UNCHANGED << object_selected, selectionBoxArray, boxInFocus, resizeSideInFocus,
                                deviceBoxMap, nSelected, colors, heap, nBoxes, drag_objects, requests >>

\* the test of onKeyUp without the key code
deleteRequestedAnyKey(keyCode, focus) == focus # NoBox

\* event.keyCode == 46 && boxInFocus !== undefined
deleteRequested(keyCode, focus) == keyCode = DeleteKey /\ focus # NoBox

onKeyUp(keyCode) ==
    /\ UNCHANGED << mouseDown, shiftDown, make_selection_box, make_connection, object_selected,
                    resizeSideInFocus, mouseDownCoords, mRelPos, layerSelected, nBoxes,
                    drag_objects, requests, nDowns >>
    /\ IF deleteRequested(keyCode, boxInFocus)
       THEN LET b1 == removePoints(heap[boxInFocus])
            IN  IF ~hasLayer(b1.layerName)
                THEN \* TypeError in removeBox on layer_points[""]
                     /\ heap' = [heap EXCEPT ![boxInFocus] = b1]
                     /\ gesture' = NoGesture
                     /\ committed' = NoCommit
                     /\ UNCHANGED << selectionBoxArray, boxInFocus, deviceBoxMap, nSelected,
                                     colors >>
                ELSE LET rem == removeBox(b1, colors, nSelected)
                     IN  /\ heap' = [heap EXCEPT ![boxInFocus] = removeLines(rem.box)]
                         /\ colors' = rem.colors
                         /\ nSelected' = rem.nSelected
                         /\ selectionBoxArray' = spliceFirst(selectionBoxArray, boxInFocus)
                         /\ deviceBoxMap' = [device \in DeviceNames |->
                                                spliceFirst(deviceBoxMap[device], boxInFocus)]
                         /\ boxInFocus' = NoBox
                         /\ gesture' = NoGesture
                         /\ committed' = NoCommit
       ELSE UNCHANGED << selectionBoxArray, boxInFocus, deviceBoxMap, nSelected, colors,
                            heap, gesture, committed >>

\* ---------------------------------------------------------- specifications
\* some key that is not delete
OtherKey == DeleteKey + 1

MouseDown ==
    /\ nDowns < MaxDowns
    /\ \E p \in Pointer, shiftKey \in BOOLEAN : onMouseDown(p.x, p.y, shiftKey)

\* The inputs a handler reads in the branch it takes; an input it does not
\* read is delivered with one value only.
dragBranch ==
    /\ ~make_selection_box /\ resizeSideInFocus = "undefined" /\ ~make_connection
    /\ shiftDown /\ object_selected # "none"

moveReadsPosition ==
    make_selection_box \/ resizeSideInFocus # "undefined" \/ make_connection \/ dragBranch

upReadsPosition ==
    ~make_selection_box /\ resizeSideInFocus = "undefined" /\ make_connection

origin == [x |-> 0, y |-> 0]

MouseMove ==
    \E p \in IF moveReadsPosition THEN Pointer ELSE {origin},
       plane \in IF dragBranch THEN BOOLEAN ELSE {TRUE} : onMouseMove(p.x, p.y, plane)

MouseUp ==
    \E p \in IF upReadsPosition THEN Pointer ELSE {origin},
       shape \in IF make_selection_box THEN Shapes ELSE {"Rectangle"} : onMouseUp(p.x, p.y, shape)

KeyUp == \E keyCode \in {DeleteKey, OtherKey} : onKeyUp(keyCode)

\* Any sequence of events: the host may deliver a pointer-down without the
\* pointer-up of the one before (the button released off the canvas).
Next == MouseDown \/ MouseMove \/ MouseUp \/ KeyUp

Spec == Init /\ [][Next]_vars

\* Longer runs on the left edge of the canvas: the pointer goes down, without
\* shift, at its two ends only; moves, pointer-ups and keys are as in Spec.
LeftEdge == { p \in Pointer : p.x = 0 }

LeftEdgeDown ==
    /\ nDowns < MaxLeftEdgeDowns
    /\ \E p \in LeftEdge : onMouseDown(p.x, p.y, FALSE)

LeftEdgeMove ==
    \E p \in IF moveReadsPosition THEN LeftEdge ELSE {origin},
       plane \in IF dragBranch THEN BOOLEAN ELSE {TRUE} : onMouseMove(p.x, p.y, plane)

LeftEdgeNext == LeftEdgeDown \/ LeftEdgeMove \/ MouseUp \/ KeyUp

LeftEdgeSpec == Init /\ [][LeftEdgeNext]_vars

\* ------------------------------------------------------------------ claims
liveBoxes == Range(selectionBoxArray)

Idle ==
    /\ ~make_selection_box
    /\ ~make_connection
    /\ ~shiftDown
    /\ resizeSideInFocus = "undefined"
    /\ object_selected = "none"

activeModes ==
    { m \in {"Drawing", "Resizing", "Connecting", "DraggingObject"} :
        \/ m = "Drawing" /\ make_selection_box
        \/ m = "Resizing" /\ resizeSideInFocus # "undefined"
        \/ m = "Connecting" /\ make_connection
        \/ m = "DraggingObject" /\ shiftDown }

\* The step is a pointer-up that ends Drawing and constructs a box that
\* overlapped no layer.
emptyMarqueeUp ==
    /\ make_selection_box
    /\ MouseUp
    /\ nBoxes' = nBoxes + 1
    /\ heap'[nBoxes'].layerName = ""

\* C1: a pointer-up that ends Drawing with a marquee that overlapped no layer
\* leaves the live-region collection as it was and no region focused, and
\* after every step every live region has a non-empty layerName.
C1_EmptyMarqueeDiscarded ==
    [][ /\ emptyMarqueeUp =>
            /\ selectionBoxArray' = selectionBoxArray
            /\ boxInFocus' = NoBox
        /\ \A id \in liveBoxes' : heap'[id].layerName # "" ]_vars

\* C2: after every pointer-up the controller is Idle.
C2_IdleAfterPointerUp == [][ MouseUp => Idle' ]_vars

\* C3: at most one of Drawing, Resizing, Connecting and DraggingObject is
\* active in any reachable state.
C3_ModesExclusive == Cardinality(activeModes) <= 1

\* C4: at most one live region has resize points, and a live region that has
\* them is boxInFocus.
C4_HandlesOnlyOnFocus ==
    /\ Cardinality({ id \in liveBoxes : heap[id].resizePoints # << >> }) <= 1
    /\ \A id \in liveBoxes : heap[id].resizePoints # << >> => id = boxInFocus

occurrences(seq, x) == Cardinality({ i \in 1..Len(seq) : seq[i] = x })

targets(curves) == [i \in 1..Len(curves) |-> curves[i].target]

connectorsTo(b, t) == Cardinality({ i \in 1..Len(b.curves) : b.curves[i].target = t })

\* The step is a delete-key event on the focused region, which has a layer.
deleteFocused ==
    /\ boxInFocus # NoBox
    /\ hasLayer(heap[boxInFocus].layerName)
    /\ onKeyUp(DeleteKey)

\* C5: a delete-key event on a focused region R (one that has a layer) takes
\* R out of the live-region collection and out of every adjacency-map list,
\* leaves R without resize points and connectors and no region focused, and
\* keeps the order of the other regions; after every step the adjacency map
\* holds live regions only.
C5_DeleteRemovesEveryReference ==
    [][ /\ deleteFocused =>
            /\ boxInFocus \notin liveBoxes'
            /\ \A d \in DeviceNames : boxInFocus \notin Range(deviceBoxMap'[d])
            /\ heap'[boxInFocus].resizePoints = << >>
            /\ heap'[boxInFocus].curves = << >>
            /\ boxInFocus' = NoBox
            /\ selectionBoxArray' = SelectSeq(selectionBoxArray, LAMBDA id : id # boxInFocus)
        /\ \A d \in DeviceNames : Range(deviceBoxMap'[d]) \subseteq liveBoxes' ]_vars

\* C6: after every step each connector of a live region with a device as its
\* target has its region in that device's adjacency-map list, and a step that
\* takes connectors with target t from a region takes as many entries of the
\* region from the list of t.
C6_ConnectorsMatchAdjacencyMap ==
    [][ /\ \A id \in liveBoxes' : \A i \in 1..Len(heap'[id].curves) :
              heap'[id].curves[i].target # "" =>
                  id \in Range(deviceBoxMap'[heap'[id].curves[i].target])
        /\ \A id \in DOMAIN heap : \A t \in DeviceNames :
              connectorsTo(heap'[id], t) < connectorsTo(heap[id], t) =>
                  occurrences(deviceBoxMap[t], id) - occurrences(deviceBoxMap'[t], id)
                      = connectorsTo(heap[id], t) - connectorsTo(heap'[id], t) ]_vars

\* The index in selectionBoxArray of the region a pointer-down at p without
\* shift focuses, when it hits no resize point of the focused box; else 0.
focusedByDown(p) ==
    IF boxInFocus # NoBox /\ pointIntersects(p, heap[boxInFocus]) # {}
    THEN 0
    ELSE firstBoxWithin([x |-> p.x, y |-> Height - p.y], selectionBoxArray, heap)

\* C7: a pointer-down without shift inside a live region that hits no resize
\* point creates a connector and enters Connecting if and only if the region
\* has no connector yet; on a region that has one it focuses the region and
\* makes its resize points, and that is all.
C7_ConnectorOnlyOnFirstClick ==
    [][ \A p \in Pointer :
          (focusedByDown(p) # 0 /\ onMouseDown(p.x, p.y, FALSE)) =>
              LET id == selectionBoxArray[focusedByDown(p)]
              IN  /\ boxInFocus' = id
                  /\ heap'[id].resizePoints # << >>
                  /\ IF heap[id].curves = << >>
                     THEN /\ Len(heap'[id].curves) = 1
                          /\ make_connection'
                     ELSE /\ heap'[id].curves = heap[id].curves
                          /\ make_connection' = make_connection ]_vars

\* The step is a pointer-up that takes the Connecting branch of onMouseUp.
connectUp(p) ==
    /\ upReadsPosition
    /\ \E shape \in Shapes : onMouseUp(p.x, p.y, shape)

noFreeConnector(arr, h) ==
    \A id \in Range(arr) : \A i \in 1..Len(h[id].curves) : h[id].curves[i].target # ""

\* C8: when a pointer-down on a live region has started Connecting and the
\* pointer-up of the same gesture (only pointer-moves in between) hits no
\* device, the region's connectors are those it had before the pointer-down,
\* the adjacency map is the one of before the pointer-down and no region is
\* left with a connector that has no target.
C8_MissDiscardsConnector ==
    [][ \A p \in Pointer :
          (gesture.box # NoBox /\ intersects(p, drag_objects) = {} /\ connectUp(p)) =>
              /\ targets(heap'[gesture.box].curves) = targets(gesture.curves)
              /\ deviceBoxMap' = gesture.map
              /\ noFreeConnector(selectionBoxArray', heap') ]_vars

\* C9: when a pointer-up ends Connecting on a device D, the connector in
\* progress of the focused region gets D as its target and ends at D's anchor
\* less its radius, the region is appended once to D's list, and every other
\* region and every connector of the region with another target stay as they
\* were.
C9_HitAttachesConnector ==
    [][ \A p \in Pointer :
          ( /\ boxInFocus # NoBox
            /\ heap[boxInFocus].curves # << >>
            /\ heap[boxInFocus].curves[Len(heap[boxInFocus].curves)].target = ""
            /\ intersects(p, drag_objects) # {}
            /\ connectUp(p) ) =>
              \E D \in intersects(p, drag_objects) :
                LET old == heap[boxInFocus].curves
                    new == heap'[boxInFocus].curves
                    n   == Len(old)
                    a   == drag_objects[D]
                IN  /\ Len(new) = n
                    /\ new[n].target = D
                    /\ new[n].points[4] = [x |-> a.x - DeviceRadius, y |-> a.y]
                    /\ new[n].points[3] = [x |-> a.x - DeviceRadius - Eps, y |-> a.y]
                    /\ deviceBoxMap'[D] = Append(deviceBoxMap[D], boxInFocus)
                    /\ \A d \in DeviceNames \ {D} : deviceBoxMap'[d] = deviceBoxMap[d]
                    /\ \A id \in DOMAIN heap \ {boxInFocus} : heap'[id] = heap[id]
                    /\ \A i \in 1..(n - 1) : old[i].target # D => new[i] = old[i] ]_vars

\* C9 witness: the focused region has a connector to each device, the later
\* one just attached.
C9_Witness ==
    \E id \in liveBoxes :
        /\ id = boxInFocus /\ ~make_connection /\ ~mouseDown
        /\ Len(heap[id].curves) = 2
        /\ heap[id].curves[1].target \in DeviceNames
        /\ heap[id].curves[2].target \in DeviceNames \ {heap[id].curves[1].target}
        /\ deviceBoxMap[heap[id].curves[2].target] = << id >>
        /\ heap[id].curves[2].points[4].x =
               drag_objects[heap[id].curves[2].target].x - DeviceRadius

\* The step is a pointer-up that takes the Resizing branch of onMouseUp on a
\* focused region.
resizeUp ==
    /\ ~make_selection_box
    /\ resizeSideInFocus # "undefined"
    /\ boxInFocus # NoBox
    /\ MouseUp

\* C10: after a pointer-up that ends Resizing the focused region has
\* ll.x <= ur.x and ll.y <= ur.y, and { ll.x, ur.x } and { ll.y, ur.y } are
\* what they were before it.
C10_ResizeCommitNormalizes ==
    [][ resizeUp =>
          LET old == heap[boxInFocus]
              new == heap'[boxInFocus]
          IN  /\ new.ll.x <= new.ur.x
              /\ new.ll.y <= new.ur.y
              /\ {new.ll.x, new.ur.x} = {old.ll.x, old.ur.x}
              /\ {new.ll.y, new.ur.y} = {old.ll.y, old.ur.y} ]_vars

\* C10 witness: the last pointer-up ended Resizing on a region that the drag
\* had inverted on both axes, and the region is in order now.
C10_Witness ==
    /\ committed.box # NoBox
    /\ committed.ll.x > committed.ur.x
    /\ committed.ll.y > committed.ur.y
    /\ heap[committed.box].ll.x < heap[committed.box].ur.x
    /\ heap[committed.box].ll.y < heap[committed.box].ur.y
    /\ hasLayer(heap[committed.box].layerName)

\* The buffer indices of the points of the layer of b that are within its
\* bounds, as a set.
membersOf(b) == Range(bufferIndices(pointsWithin(layerIndex(b.layerName), b)))

\* C11: whenever the controller is Idle, selectedPointIDs of every live region
\* that has a layer is the set of the points of that layer that are within
\* the region's ll/ur.
C11_MembershipExact ==
    Idle => \A id \in liveBoxes :
                hasLayer(heap[id].layerName) =>
                    Range(heap[id].selectedPointIDs) = membersOf(heap[id])

\* The step is a pointer-move in Resizing that changes ll or ur of the
\* focused region, which has a layer.
resizeMove ==
    /\ ~make_selection_box
    /\ resizeSideInFocus # "undefined"
    /\ boxInFocus # NoBox
    /\ hasLayer(heap[boxInFocus].layerName)
    /\ MouseMove
    /\ << heap'[boxInFocus].ll, heap'[boxInFocus].ur >> # << heap[boxInFocus].ll, heap[boxInFocus].ur >>

\* C12: after a pointer-move in Resizing that changes ll or ur, the region's
\* selectedPointIDs are the points of its layer within the new bounds, these
\* points carry the highlight colour and the selected count has moved by the
\* change of the number of the region's points.
C12_RescanOnEveryBoundsChange ==
    [][ resizeMove =>
          LET new == heap'[boxInFocus]
              l   == layerIndex(new.layerName)
          IN  /\ Range(new.selectedPointIDs) = membersOf(new)
              /\ \A k \in 1..Len(layer_points[l].points) :
                    withinBounds(layer_points[l].points[k], new) => colors'[l][k] = "selected"
              /\ nSelected' - nSelected =
                    Cardinality(membersOf(new)) - Len(heap[boxInFocus].selectedPointIDs) ]_vars

\* C13: in every reachable state a point of a layer carries the highlight
\* colour if and only if it is in selectedPointIDs of a live region of that
\* layer, and the base colour otherwise.
C13_HighlightIffSelected ==
    \A l \in LayerIdx : \A k \in 1..Len(layer_points[l].points) :
        LET selected == \E id \in liveBoxes :
                            /\ heap[id].layerName = layer_points[l].name
                            /\ 3 * (k - 1) \in Range(heap[id].selectedPointIDs)
        IN  colors[l][k] = IF selected THEN "selected" ELSE "base"

\* C14: for every region that has a layer, with the point colours and the
\* selected count of any reachable state, a second updateColors with the
\* bounds unchanged leaves selectedPointIDs, the colours and the selected
\* count as the first one left them.
C14_UpdateColorsIdempotent ==
    \A id \in DOMAIN heap :
        hasLayer(heap[id].layerName) =>
            LET once  == updateColors(heap[id], colors, nSelected)
                twice == updateColors(once.box, once.colors, once.nSelected)
            IN  /\ twice.box.selectedPointIDs = once.box.selectedPointIDs
                /\ twice.colors = once.colors
                /\ twice.nSelected = once.nSelected

\* C14 witness: a resize is under way on a region whose bounds hold points of
\* its layer and whose selectedPointIDs are not these points, so that the
\* first updateColors changes them.
C14_Witness ==
    /\ boxInFocus # NoBox
    /\ resizeSideInFocus # "undefined"
    /\ hasLayer(heap[boxInFocus].layerName)
    /\ membersOf(heap[boxInFocus]) # {}
    /\ Range(heap[boxInFocus].selectedPointIDs) # membersOf(heap[boxInFocus])
    /\ heap[boxInFocus].selectedPointIDs # << >>

\* The step is a pointer-up that ends Drawing and constructs a region that
\* has a layer.
regionDrawnUp ==
    /\ make_selection_box
    /\ MouseUp
    /\ nBoxes' = nBoxes + 1
    /\ heap'[nBoxes'].layerName # ""

\* C15: a pointer-up that ends Drawing over a layer sends one payload, whose
\* maskShape is the shape of the new region and whose name is its layerName;
\* no other step sends a payload.
C15_OnePayloadPerNewRegion ==
    [][ IF regionDrawnUp
        THEN /\ Len(requests') = Len(requests) + 1
             /\ SubSeq(requests', 1, Len(requests)) = requests
             /\ requests'[Len(requests')].maskShape = heap'[nBoxes'].selectedShape
             /\ requests'[Len(requests')].name = heap'[nBoxes'].layerName
        ELSE requests' = requests ]_vars

\* C15 witness: three marquees were drawn, an Ellipse and a Rectangle over
\* layers and one over no layer, and two payloads were sent, the Ellipse's
\* first.
C15_Witness ==
    /\ nBoxes = 3
    /\ Len(requests) = 2
    /\ requests[1].maskShape = "Ellipse"
    /\ requests[2].maskShape = "Rectangle"
    /\ \E id \in 1..3 : heap[id].layerName = ""
    /\ Idle

\* The step is a pointer-up that ends Drawing with a marquee of zero area.
zeroAreaUp ==
    /\ make_selection_box
    /\ mRelPos = [x |-> 0, y |-> 0]
    /\ MouseUp

\* C16: a pointer-up that ends Drawing with a marquee of zero area adds no
\* region to the live collection, focuses no region, leaves the point colours
\* and the selected count as they were and sends no payload.
C16_ZeroAreaMarqueeDropped ==
    [][ zeroAreaUp =>
          /\ selectionBoxArray' = selectionBoxArray
          /\ boxInFocus' \in {NoBox, boxInFocus}
          /\ colors' = colors
          /\ nSelected' = nSelected
          /\ requests' = requests ]_vars

\* The grid the probes of withinBounds are taken from: twice the canvas and
\* a margin around it.
Probe == { [x |-> px, y |-> py] : px \in (-1)..(2 * Width + 1), py \in (-1)..(2 * Height + 1) }

\* The box b with the coordinates doubled, so that its centre is on the grid.
doubled(b) ==
    [b EXCEPT !.ll = [x |-> 2 * b.ll.x, y |-> 2 * b.ll.y],
              !.ur = [x |-> 2 * b.ur.x, y |-> 2 * b.ur.y]]

\* C17: for every Rectangle region with ll.x <= ur.x and ll.y <= ur.y,
\* withinBounds holds on the four corners and on the centre and holds for no
\* position with x < ll.x, x > ur.x, y < ll.y or y > ur.y.
C17_RectangleBoundsInclusive ==
    \A id \in DOMAIN heap :
        LET b == doubled(heap[id])
        IN  (b.selectedShape = "Rectangle" /\ b.ll.x <= b.ur.x /\ b.ll.y <= b.ur.y) =>
                /\ withinBounds(b.ll, b)
                /\ withinBounds(b.ur, b)
                /\ withinBounds([x |-> b.ll.x, y |-> b.ur.y], b)
                /\ withinBounds([x |-> b.ur.x, y |-> b.ll.y], b)
                /\ withinBounds([x |-> (b.ll.x + b.ur.x) \div 2,
                                 y |-> (b.ll.y + b.ur.y) \div 2], b)
                /\ \A pos \in Probe :
                      (pos.x < b.ll.x \/ pos.x > b.ur.x \/ pos.y < b.ll.y \/ pos.y > b.ur.y)
                          => ~withinBounds(pos, b)

\* C17 witness: Rectangle regions of the three kinds are there: one with an
\* odd extent on both axes, one of zero area and one of zero height.
C17_Witness ==
    /\ \E id \in DOMAIN heap :
          /\ heap[id].selectedShape = "Rectangle"
          /\ heap[id].ur.x - heap[id].ll.x = 1 /\ heap[id].ur.y - heap[id].ll.y = 1
    /\ \E id \in DOMAIN heap :
          /\ heap[id].selectedShape = "Rectangle"
          /\ heap[id].ur = heap[id].ll
    /\ \E id \in DOMAIN heap :
          /\ heap[id].selectedShape = "Rectangle"
          /\ heap[id].ur.x > heap[id].ll.x /\ heap[id].ur.y = heap[id].ll.y

\* The x coordinates of b times 200 and the y coordinates times 2 (the test
\* of an ellipse is the same on a scaled axis): the centre, the half-extents
\* and 1.01 times the half-extent rx are integers then.
scaled(b) ==
    [b EXCEPT !.ll = [x |-> 200 * b.ll.x, y |-> 2 * b.ll.y],
              !.ur = [x |-> 200 * b.ur.x, y |-> 2 * b.ur.y]]

\* C18: for every Ellipse region with centre c and half-extents rx, ry >= 0,
\* withinBounds holds at c, at c + (rx, 0) and at c + (0, ry), and, where
\* rx > 0, does not hold at c + (1.01 rx, 0).
C18_EllipseBoundary ==
    \A id \in DOMAIN heap :
        LET b  == scaled(heap[id])
            c  == [x |-> (b.ll.x + b.ur.x) \div 2, y |-> (b.ll.y + b.ur.y) \div 2]
            rx == (b.ur.x - b.ll.x) \div 2
            ry == (b.ur.y - b.ll.y) \div 2
        IN  (b.selectedShape = "Ellipse" /\ rx >= 0 /\ ry >= 0) =>
                /\ withinBounds(c, b)
                /\ withinBounds([x |-> c.x + rx, y |-> c.y], b)
                /\ withinBounds([x |-> c.x, y |-> c.y + ry], b)
                /\ rx > 0 => ~withinBounds([x |-> c.x + (101 * rx) \div 100, y |-> c.y], b)

\* C19: a key event whose key is not delete, and a delete-key event while no
\* region is focused, change nothing: the live regions, the adjacency map,
\* the focus, the mode flags, every region's resize points and connectors,
\* the point colours and the selected count are as before.
C19_OtherKeysAreNoOps ==
    [][ \A keyCode \in {DeleteKey, OtherKey} :
          ((keyCode # DeleteKey \/ boxInFocus = NoBox) /\ onKeyUp(keyCode)) =>
              UNCHANGED << selectionBoxArray, deviceBoxMap, boxInFocus, mouseDown, shiftDown,
                           make_selection_box, make_connection, resizeSideInFocus,
                           object_selected, heap, colors, nSelected >> ]_vars

\* C19 witness: a region with a connector attached to a device is focused in
\* the middle of a resize, where a key other than delete finds everything
\* there that a delete would take.
C19_Witness ==
    /\ boxInFocus # NoBox
    /\ boxInFocus \in liveBoxes
    /\ resizeSideInFocus # "undefined"
    /\ heap[boxInFocus].resizePoints # << >>
    /\ \E d \in DeviceNames : boxInFocus \in Range(deviceBoxMap[d])
    /\ nSelected > 0

\* The names of the resize points of the focused box whose disc holds the
\* point of the scene plane under the pointer at p.
handlesHit(p) ==
    LET pts == heap[boxInFocus].resizePoints
        q   == toObjectCoordinates(p)
    IN  { pts[i].name : i \in { j \in 1..Len(pts) :
            (q.x - pts[j].position.x) * (q.x - pts[j].position.x)
              + (q.y - pts[j].position.y) * (q.y - pts[j].position.y)
                <= PointRadius * PointRadius } }

\* C20: a pointer-down, with or without shift, whose ray hits a resize point
\* of the focused region sets resizeSideInFocus to the name of a resize point
\* hit and leaves the focus, the live regions, every region (its connectors
\* too), the adjacency map, the dragged object and the Drawing, Connecting
\* and shift flags as they were.
C20_HandleHitOnlyEntersResizing ==
    [][ \A shiftKey \in BOOLEAN :
          \* a pointer-down is at the position it leaves in mouseDownCoords
          LET p == mouseDownCoords'
          IN  ( /\ boxInFocus # NoBox
                /\ handlesHit(p) # {}
                /\ onMouseDown(p.x, p.y, shiftKey) ) =>
              /\ resizeSideInFocus' \in handlesHit(p)
              /\ UNCHANGED << boxInFocus, selectionBoxArray, heap, deviceBoxMap,
                              make_selection_box, make_connection, shiftDown,
                              object_selected >> ]_vars

\* C20 witness: the last pointer-down hit a resize point of the focused
\* region at a position inside a live region; the region has a connector and
\* no other mode is on.
C20_Witness ==
    /\ boxInFocus # NoBox
    /\ mouseDown
    /\ resizeSideInFocus \in handlesHit(mouseDownCoords)
    /\ firstBoxWithin([x |-> mouseDownCoords.x, y |-> Height - mouseDownCoords.y],
                      selectionBoxArray, heap) # 0
    /\ heap[boxInFocus].curves # << >>
    /\ ~make_selection_box /\ ~make_connection /\ ~shiftDown

\* The corrected screen position of a pointer event at the client position p.
flipped(p) == [x |-> p.x, y |-> Height - p.y]

\* The live regions whose bounds hold the flipped position of p.
containing(p) == { id \in liveBoxes : withinBounds(flipped(p), heap[id]) }

\* C21: a pointer-down without shift that hits no resize point of the focused
\* region focuses the earliest-created live region whose bounds hold the
\* flipped down point, the region focused before having lost its resize
\* points; where no live region holds the point, no region is focused, the
\* region focused before has no resize points, and Drawing is entered with
\* the down point as anchor.
C21_FocusIsEarliestContaining ==
    [][ \A p \in Pointer :
          ( /\ nDowns' = nDowns + 1
            /\ boxInFocus # NoBox => handlesHit(p) = {}
            /\ onMouseDown(p.x, p.y, FALSE) ) =>
              IF containing(p) # {}
              THEN LET first == CHOOSE id \in containing(p) : \A o \in containing(p) : id <= o
                   IN  /\ boxInFocus' = first
                       /\ (boxInFocus # NoBox /\ boxInFocus # first) =>
                              heap'[boxInFocus].resizePoints = << >>
              ELSE /\ boxInFocus' = NoBox
                   /\ boxInFocus # NoBox => heap'[boxInFocus].resizePoints = << >>
                   /\ make_selection_box'
                   /\ mouseDownCoords' = p ]_vars

\* C21 witness: the last pointer-down was at a position two live regions
\* hold; the earlier one is focused and has resize points, the later one has
\* none.
C21_Witness ==
    /\ mouseDown /\ ~shiftDown /\ resizeSideInFocus = "undefined"
    /\ boxInFocus \in containing(mouseDownCoords)
    /\ heap[boxInFocus].resizePoints # << >>
    /\ \E id \in containing(mouseDownCoords) :
          /\ id > boxInFocus
          /\ heap[id].resizePoints = << >>
          /\ hasLayer(heap[id].layerName)

\* The coordinates of a region the resize point `side` stands for.
coordinatesOf(side) ==
    CASE side = "lowerLeft"   -> {"ll.x", "ll.y"}
      [] side = "lowerMiddle" -> {"ll.y"}
      [] side = "lowerRight"  -> {"ur.x", "ll.y"}
      [] side = "middleRight" -> {"ur.x"}
      [] side = "upperRight"  -> {"ur.x", "ur.y"}
      [] side = "upperMiddle" -> {"ur.y"}
      [] side = "upperLeft"   -> {"ll.x", "ur.y"}
      [] side = "middleLeft"  -> {"ll.x"}
      [] OTHER                -> {}

\* The coordinates in which the boxes old and new differ.
changedCoordinates(old, new) ==
    { c \in {"ll.x", "ll.y", "ur.x", "ur.y"} :
        \/ c = "ll.x" /\ new.ll.x # old.ll.x
        \/ c = "ll.y" /\ new.ll.y # old.ll.y
        \/ c = "ur.x" /\ new.ur.x # old.ur.x
        \/ c = "ur.y" /\ new.ur.y # old.ur.y }

\* C22: a pointer-move while a resize point is in focus changes no region but
\* the focused one, and of that one only the coordinates the resize point
\* stands for (its resize points, connectors, points and shape stay); the
\* live regions, the adjacency map, the focus and the mode flags are
\* unchanged.
C22_ResizeMoveFrame ==
    [][ (resizeSideInFocus # "undefined" /\ MouseMove) =>
          /\ \A id \in DOMAIN heap :
                IF id = boxInFocus
                THEN /\ changedCoordinates(heap[id], heap'[id])
                            \subseteq coordinatesOf(resizeSideInFocus)
                     /\ [heap'[id] EXCEPT !.ll = heap[id].ll, !.ur = heap[id].ur] = heap[id]
                ELSE heap'[id] = heap[id]
          /\ UNCHANGED << selectionBoxArray, deviceBoxMap, boxInFocus, resizeSideInFocus,
                          make_selection_box, make_connection, shiftDown, mouseDown,
                          object_selected >> ]_vars

\* C22 witness: the resize point in focus is the middle of the lower edge and
\* a move has taken the lower edge of the focused region away from it, the
\* other three coordinates being where the resize points are.
C22_Witness ==
    /\ boxInFocus # NoBox
    /\ resizeSideInFocus = "lowerMiddle"
    /\ ~make_selection_box
    /\ Len(heap[boxInFocus].resizePoints) = Len(nameArray)
    /\ LET sb  == getSelectionBounds(heap[boxInFocus])
           pts == heap[boxInFocus].resizePoints
       IN  /\ pts[1].position.y # sb.ll.y
           /\ pts[1].position.x = sb.ll.x
           /\ pts[5].position = [x |-> sb.ur.x, y |-> sb.ur.y]

\* What C23 says of a step that moves the held object d to the pointer at p.
dragged(d, p) ==
    LET end == [x |-> drag_objects'[d].x - DeviceRadius, y |-> drag_objects'[d].y]
    IN  /\ drag_objects'[d] = toObjectCoordinates(p)
        /\ \A id \in DOMAIN heap :
              /\ Len(heap'[id].curves) = Len(heap[id].curves)
              /\ heap'[id].ll = heap[id].ll
              /\ heap'[id].ur = heap[id].ur
              /\ \A i \in 1..Len(heap[id].curves) :
                    IF id \in Range(deviceBoxMap[d]) /\ heap[id].curves[i].target = d
                    THEN /\ heap'[id].curves[i].points[4] = end
                         /\ heap'[id].curves[i].target = d
                    ELSE heap'[id].curves[i] = heap[id].curves[i]

\* C23: a pointer-move at p while DraggingObject is on and an object d is
\* held, the drag ray meeting the plane, puts d at p and the end point of
\* every connector with target d, in every region of d's adjacency-map entry,
\* at d's position less its radius; the other connectors and the bounds of
\* every region are unchanged.
C23_DragMovesAttachedConnectors ==
    [][ \A p \in Pointer :
          (shiftDown /\ object_selected # "none" /\ onMouseMove(p.x, p.y, TRUE)) =>
              dragged(object_selected, p) ]_vars

\* C24: in every reachable state every live region has no resize points or
\* exactly 8 of them, one for each name of nameArray.
C24_HandlesNoneOrEight ==
    \A id \in liveBoxes :
        \/ heap[id].resizePoints = << >>
        \/ [i \in 1..Len(heap[id].resizePoints) |-> heap[id].resizePoints[i].name] = nameArray

\* C25: in every reachable state in which a resize point is in focus or
\* Connecting is on, a region is focused and it is a live region.
C25_GestureHasLiveFocus ==
    (resizeSideInFocus # "undefined" \/ make_connection) =>
        /\ boxInFocus # NoBox
        /\ boxInFocus \in liveBoxes

RECURSIVE selectedIn(_)
\* The sum of the lengths of selectedPointIDs over the regions of arr.
selectedIn(arr) ==
    IF arr = << >> THEN 0
    ELSE Len(heap[Head(arr)].selectedPointIDs) + selectedIn(Tail(arr))

\* C26: in every reachable state nSelected is the sum of the lengths of
\* selectedPointIDs over the live regions, and is not negative.
C26_SelectedCountIsSum ==
    /\ nSelected = selectedIn(selectionBoxArray)
    /\ nSelected >= 0

\* C26 witness: a region that had points selected was deleted, and the last
\* pointer-up ended Resizing on a live region that has points selected.
C26_Witness ==
    /\ \E id \in DOMAIN heap \ liveBoxes : heap[id].selectedPointIDs # << >>
    /\ committed.box \in liveBoxes
    /\ hasLayer(heap[committed.box].layerName)
    /\ << committed.ll, committed.ur >> # << heap[committed.box].ll, heap[committed.box].ur >>
    /\ heap[committed.box].selectedPointIDs # << >>
    /\ nSelected > 0

\* The connectors without a target of the regions of arr, as pairs of a
\* region and a position in its curves.
freeConnectors(arr, h) ==
    UNION { { << id, i >> : i \in { j \in 1..Len(h[id].curves) : h[id].curves[j].target = "" } } :
            id \in Range(arr) }

\* What C27 says of a state: the free connectors of the live regions are none,
\* or, with Connecting on, the last connector of the focused region alone.
oneFreeConnector(arr, h, focus, connecting) ==
    \/ freeConnectors(arr, h) = {}
    \/ /\ connecting
       /\ focus # NoBox
       /\ freeConnectors(arr, h) = { << focus, Len(h[focus].curves) >> }

\* C27: after every step the live regions have at most one connector without
\* a target, and they have one only while Connecting is on, the last
\* connector of the focused region; a pointer-move while Connecting is on
\* leaves every connector but that one as it was, and of that one the target
\* and the start.
C27_OneFreeConnector ==
    [][ /\ oneFreeConnector(selectionBoxArray', heap', boxInFocus', make_connection')
        /\ (make_connection /\ MouseMove) =>
              \A id \in DOMAIN heap :
                /\ Len(heap'[id].curves) = Len(heap[id].curves)
                /\ \A i \in 1..Len(heap[id].curves) :
                      IF id = boxInFocus /\ i = Len(heap[id].curves)
                      THEN /\ heap'[id].curves[i].target = heap[id].curves[i].target
                           /\ heap'[id].curves[i].points[1] = heap[id].curves[i].points[1]
                      ELSE heap'[id].curves[i] = heap[id].curves[i] ]_vars

====
